---------------------------- MODULE Spec2Model ----------------------------
(***************************************************************************)
(* EKG-Measure2DB: the text reader and the segmenter of                    *)
(* process_measurement_ecg.py, its batch loop process_ecg_files, and the   *)
(* record loop of the script ptb_xl2csv.py.                                *)
(*                                                                         *)
(* Text is a sequence of one-character strings.  A time value is held as   *)
(* its number of sample ticks: the value the code stores is that number    *)
(* times T_sample = 1.0 / sample_frequency.                                *)
(***************************************************************************)
EXTENDS Integers, Sequences, FiniteSets, TLC

VARIABLES
    \* read_ecg_file
    content,                 \* the text of the file at filepath
    data,                    \* the rows of the returned DataFrame
    rstate,                  \* "call" | "returned"
    \* split_into_segments
    df,                      \* argument df: rows [index, value]
    seg_frequency,           \* argument sample_frequency
    segment_duration,        \* argument segment_duration
    segments,                \* the returned list of segments
    remaining_samples,       \* the discarded count that is printed (0: nothing printed)
    sstate,                  \* "call" | "returned" | "raised"
    \* the two batch programs
    program,                 \* "ecg" (process_ecg_files) | "ptb" (ptb_xl2csv.py) | "none"
    pc,                      \* position of the program
    sample_frequency,        \* config['database']['sample_frequency']
    dir_created,             \* output_dir.mkdir has run
    n_records,               \* len(ecg_files) / len(df_database)
    attempted,               \* the records the loop body has been entered for, in order
    \* process_ecg_files
    global_segment_counter,
    total_segments,
    total_files_processed,
    written,                 \* the segment files written, in order: [seq, file]
    console,                 \* the per-file messages printed: [file, msg]
    summary,                 \* the summary printed: <<>> or <<[processed, total, segments, last]>>
    \* ptb_xl2csv.py
    df_database,             \* the rows of ptbxl_database.csv: the ecg_id of each
    has_filename_col,        \* the index has the filename_hr / filename_lr column
    has_ecg_id_col,          \* the index has the ecg_id column
    filename_path,           \* the module-level variable of that name ("unset" before line 52)
    successful,
    failed,
    errors,                  \* the list errors: [record_id, filename]
    failed_rows,             \* the positions in df_database of the rows that failed, in order
    outputs,                 \* the record files written, in order
    error_log                \* each write of processing_errors.csv: the rows written

rvars == <<content, data, rstate>>
svars == <<df, seg_frequency, segment_duration, segments, remaining_samples, sstate>>
bvars == <<program, pc, sample_frequency, dir_created, n_records, attempted>>
evars == <<global_segment_counter, total_segments, total_files_processed,
           written, console, summary>>
pvars == <<df_database, has_filename_col, has_ecg_id_col, filename_path,
           successful, failed, errors, failed_rows, outputs, error_log>>
vars == <<rvars, svars, bvars, evars, pvars>>

---------------------------------------------------------------------------
(* Bounds of the model *)

MaxFileLen == 9      \* characters in a text file given to read_ecg_file
MaxDfLen == 6        \* rows of a DataFrame given to split_into_segments
MaxIndex == 2        \* largest value of the index column
MaxFrequency == 2    \* largest sample_frequency given to split_into_segments
MaxDuration == 2     \* largest segment_duration given to split_into_segments
MaxFiles == 3        \* ECG_*.txt files in the input directory
MaxSamples == 20     \* valid lines in one ECG_*.txt file of a batch
MaxBatchFrequency == 1   \* largest sample_frequency of a process_ecg_files run
MaxRows == 3         \* rows of ptbxl_database.csv
MaxEcgId == 2        \* largest ecg_id in ptbxl_database.csv

---------------------------------------------------------------------------
(* Python primitives the code uses *)

Whitespace == {" ", "\n", "\t", "\r"}
Digits == {"0", "1", "2", "3", "4", "5", "6", "7", "8", "9"}

RECURSIVE LStrip(_)
LStrip(s) == IF s # <<>> /\ Head(s) \in Whitespace THEN LStrip(Tail(s)) ELSE s

RECURSIVE RStrip(_)
RStrip(s) ==
    IF s # <<>> /\ s[Len(s)] \in Whitespace THEN RStrip(SubSeq(s, 1, Len(s) - 1)) ELSE s

\* str.strip()
Strip(s) == RStrip(LStrip(s))

\* the position of the first "\n" of s, or 0
RECURSIVE FirstNewline(_, _)
FirstNewline(s, p) ==
    IF p > Len(s) THEN 0 ELSE IF s[p] = "\n" THEN p ELSE FirstNewline(s, p + 1)

\* f.readlines(): the lines of the text, each with its terminator
RECURSIVE ReadLines(_)
ReadLines(s) ==
    IF s = <<>> THEN <<>>
    ELSE LET p == FirstNewline(s, 1) IN
         IF p = 0 THEN <<s>>
         ELSE <<SubSeq(s, 1, p)>> \o ReadLines(SubSeq(s, p + 1, Len(s)))

\* str.split(sep) for a one-character sep: always at least one field
RECURSIVE Split(_, _)
Split(s, sep) ==
    IF s = <<>> THEN << <<>> >>
    ELSE LET rest == Split(Tail(s), sep) IN
         IF Head(s) = sep THEN << <<>> >> \o rest
         ELSE << <<Head(s)>> \o Head(rest) >> \o Tail(rest)

DigitValue(c) ==
    CASE c = "0" -> 0 [] c = "1" -> 1 [] c = "2" -> 2 [] c = "3" -> 3 [] c = "4" -> 4
      [] c = "5" -> 5 [] c = "6" -> 6 [] c = "7" -> 7 [] c = "8" -> 8 [] c = "9" -> 9

AllDigits(s) == s # <<>> /\ \A p \in 1..Len(s) : s[p] \in Digits

RECURSIVE Decimal(_)
Decimal(s) == IF s = <<>> THEN 0 ELSE 10 * Decimal(SubSeq(s, 1, Len(s) - 1)) + DigitValue(s[Len(s)])

\* int(text) raises ValueError unless text is, inside surrounding whitespace, an
\* optional sign and decimal digits
IntRaises(text) ==
    LET t == Strip(text)
        u == IF t # <<>> /\ Head(t) \in {"+", "-"} THEN Tail(t) ELSE t
    IN  ~AllDigits(u)

IntOf(text) ==
    LET t == Strip(text) IN
    IF t # <<>> /\ Head(t) = "-" THEN 0 - Decimal(Tail(t))
    ELSE IF t # <<>> /\ Head(t) = "+" THEN Decimal(Tail(t))
    ELSE Decimal(t)

\* a // b of Python for b # 0: the floor of the quotient
FloorDiv(a, b) ==
    LET n == IF b < 0 THEN 0 - a ELSE a
        d == IF b < 0 THEN 0 - b ELSE b
    IN  IF n >= 0 THEN n \div d ELSE 0 - ((0 - n + d - 1) \div d)

---------------------------------------------------------------------------
(* read_ecg_file *)

\* lines 34-35: the last line is dropped when it is blank
DropBlankLast(lines) ==
    IF lines # <<>> /\ Strip(lines[Len(lines)]) = <<>>
    THEN SubSeq(lines, 1, Len(lines) - 1) ELSE lines

\* line 42: the field count a line must have
FieldCountOkLoose(parts) == Len(parts) >= 2
FieldCountOk(parts) == Len(parts) = 2

\* lines 39-48: the rows one line adds to data
ParseLine(rawline) ==
    LET line == Strip(rawline)
        parts == Split(line, ";")
    IN  IF line # <<>> /\ (\E p \in 1..Len(line) : line[p] = ";")
        THEN IF FieldCountOk(parts)
             THEN IF IntRaises(parts[1]) \/ IntRaises(parts[2])
                  THEN <<>>
                  ELSE <<[index |-> IntOf(parts[1]), value |-> IntOf(parts[2])]>>
             ELSE <<>>
        ELSE <<>>

RECURSIVE ParseLines(_)
ParseLines(lines) ==
    IF lines = <<>> THEN <<>> ELSE ParseLine(Head(lines)) \o ParseLines(Tail(lines))

read_ecg_file(text) == ParseLines(DropBlankLast(ReadLines(text)))

Alphabet == {"1", ";", "x", "\n"}
TextsOfLen(n) == [1..n -> Alphabet]

ReaderIdle == /\ content = <<>> /\ data = <<>> /\ rstate = "idle"
SegmenterIdle ==
    /\ df = <<>> /\ seg_frequency = 0 /\ segment_duration = 0
    /\ segments = <<>> /\ remaining_samples = 0 /\ sstate = "idle"
BatchIdle ==
    /\ program = "none" /\ pc = "idle" /\ sample_frequency = 0
    /\ dir_created = FALSE /\ n_records = 0 /\ attempted = <<>>
    /\ global_segment_counter = 0 /\ total_segments = 0 /\ total_files_processed = 0
    /\ written = <<>> /\ console = <<>> /\ summary = <<>>
    /\ df_database = <<>> /\ has_filename_col = TRUE /\ has_ecg_id_col = TRUE
    /\ filename_path = "unset" /\ successful = 0 /\ failed = 0 /\ errors = <<>>
    /\ failed_rows = <<>> /\ outputs = <<>> /\ error_log = <<>>

InitReader ==
    /\ \E n \in 0..MaxFileLen :
          \E head \in TextsOfLen(n \div 2), rest \in TextsOfLen(n - (n \div 2)) :
              content = head \o rest
    /\ data = <<>>
    /\ rstate = "call"
    /\ SegmenterIdle
    /\ BatchIdle

ReadEcgFile ==
    /\ rstate = "call"
    /\ data' = read_ecg_file(content)
    /\ rstate' = "returned"
    /\ UNCHANGED <<content, svars, bvars, evars, pvars>>

NextReader == ReadEcgFile
SpecReader == InitReader /\ [][NextReader]_vars

---------------------------------------------------------------------------
(* split_into_segments *)

\* line 67
NumCompleteSegmentsStrict(total_samples, samples_per_segment) ==
    FloorDiv(total_samples - 1, samples_per_segment)
NumCompleteSegments(total_samples, samples_per_segment) ==
    FloorDiv(total_samples, samples_per_segment)

\* lines 78-82: the time column of a slice, in ticks of T_sample; base is the row the
\* time axis is reset to
TimeOfRecordStart(frame, slice, row) == row["index"] - frame[1]["index"]
TimeOf(frame, slice, row) == row["index"] - slice[1]["index"]

\* lines 72-85: segment i (from 0)
SegmentAt(frame, i, samples_per_segment) ==
    LET start_idx == i * samples_per_segment
        end_idx == start_idx + samples_per_segment
        slice == SubSeq(frame, start_idx + 1, end_idx)
    IN  [j \in 1..Len(slice) |->
            [time |-> TimeOf(frame, slice, slice[j]), value |-> slice[j]["value"]]]

\* line 65 and line 67 raise nothing unless the divisor is 0 (ZeroDivisionError)
SplitRaises(frame, frequency, duration) == frequency * duration = 0

\* lines 65-94, for a call that does not raise; range(n) is empty for n <= 0
split_into_segments(frame, frequency, duration) ==
    LET samples_per_segment == frequency * duration
        num_complete_segments == NumCompleteSegments(Len(frame), samples_per_segment)
    IN  IF num_complete_segments <= 0 THEN <<>>
        ELSE [i \in 1..num_complete_segments |-> SegmentAt(frame, i - 1, samples_per_segment)]

\* line 90
RemainingSamples(frame, frequency, duration) ==
    LET samples_per_segment == frequency * duration IN
    Len(frame) - NumCompleteSegments(Len(frame), samples_per_segment) * samples_per_segment

\* the frames of n rows: any index column (gaps, repeats, any start), and a value
\* column that tells the rows apart (the code never reads it)
FramesOfLen(n) ==
    {[j \in 1..n |-> [index |-> idx[j], value |-> j]] : idx \in [1..n -> 0..MaxIndex]}
Frames == UNION {FramesOfLen(n) : n \in 0..MaxDfLen}

InitSegmenter ==
    /\ df \in Frames
    /\ seg_frequency \in -1..MaxFrequency
    /\ segment_duration \in 1..MaxDuration
    /\ segments = <<>>
    /\ remaining_samples = 0
    /\ sstate = "call"
    /\ ReaderIdle
    /\ BatchIdle

SplitIntoSegments ==
    /\ sstate = "call"
    /\ IF SplitRaises(df, seg_frequency, segment_duration)
       THEN /\ sstate' = "raised"
            /\ UNCHANGED <<segments, remaining_samples>>
       ELSE /\ segments' = split_into_segments(df, seg_frequency, segment_duration)
            /\ remaining_samples' = RemainingSamples(df, seg_frequency, segment_duration)
            /\ sstate' = "returned"
    /\ UNCHANGED <<df, seg_frequency, segment_duration, rvars, bvars, evars, pvars>>

NextSegmenter == SplitIntoSegments
SpecSegmenter == InitSegmenter /\ [][NextSegmenter]_vars

---------------------------------------------------------------------------
(* process_ecg_files *)

\* line 148: segment_duration=10
SegmentDuration == 10

\* what read_ecg_file returns for a file with n valid lines numbered from 0
LoadedFrame(n) == [j \in 1..n |-> [index |-> j - 1, value |-> 0]]

\* line 171: except Exception
EcgCatchesOnlyValueError(exc) == exc = "ValueError"
EcgCatches(exc) == exc \in {"OSError", "ValueError", "ZeroDivisionError", "KeyError"}

\* line 164
AdvanceCounterStuck(counter) == counter
AdvanceCounter(counter) == counter + 1

\* lines 157-164 for the first m segments of a file: the files written
RECURSIVE SaveSegments(_, _, _)
SaveSegments(counter, file, m) ==
    IF m = 0 THEN <<>>
    ELSE <<[seq |-> counter, file |-> file]>> \o SaveSegments(AdvanceCounter(counter), file, m - 1)

\* ... and the counter after them
RECURSIVE CounterAfter(_, _)
CounterAfter(counter, m) ==
    IF m = 0 THEN counter ELSE CounterAfter(AdvanceCounter(counter), m - 1)

\* lines 137-172 for one file.  opens: open(filepath) does not raise; n: the number
\* of valid lines of the file; fail_at is the segment whose to_csv raises (none when it
\* is 0 or above the number of segments).  raised: the exception the body ends with;
\* msg: the message printed; saved: the to_csv calls that returned; created: len(segments)
EcgFileOutcome(frequency, opens, n, fail_at) ==
    IF ~opens
    THEN [raised |-> "OSError", msg |-> "error", saved |-> 0, created |-> 0]
    ELSE LET frame == LoadedFrame(n) IN
         IF frame = <<>>
         THEN [raised |-> "none", msg |-> "empty", saved |-> 0, created |-> 0]
         ELSE IF SplitRaises(frame, frequency, SegmentDuration)
         THEN [raised |-> "ZeroDivisionError", msg |-> "error", saved |-> 0, created |-> 0]
         ELSE LET segs == split_into_segments(frame, frequency, SegmentDuration) IN
              IF segs = <<>>
              THEN [raised |-> "none", msg |-> "short", saved |-> 0, created |-> 0]
              ELSE IF fail_at \in 1..Len(segs)
              THEN [raised |-> "OSError", msg |-> "error",
                    saved |-> fail_at - 1, created |-> Len(segs)]
              ELSE [raised |-> "none", msg |-> "saved",
                    saved |-> Len(segs), created |-> Len(segs)]

\* lines 101-127
EcgStart ==
    /\ program = "ecg"
    /\ pc = "start"
    /\ dir_created' = TRUE
    /\ pc' = IF n_records = 0 THEN "returned" ELSE "loop"
    /\ UNCHANGED <<program, sample_frequency, n_records, attempted,
                   rvars, svars, evars, pvars>>

\* lines 134-172: one iteration of the loop over ecg_files
EcgFile ==
    /\ program = "ecg"
    /\ pc = "loop"
    /\ Len(attempted) < n_records
    /\ \E opens \in BOOLEAN, n \in 0..MaxSamples, fail_at \in 0..MaxSamples :
          LET file == Len(attempted) + 1
              r == EcgFileOutcome(sample_frequency, opens, n, fail_at)
              completed == r.raised = "none" /\ r.msg = "saved"
          IN  /\ attempted' = Append(attempted, file)
              /\ written' = written \o SaveSegments(global_segment_counter, file, r.saved)
              /\ global_segment_counter' = CounterAfter(global_segment_counter, r.saved)
              /\ total_segments' = IF completed THEN total_segments + r.created
                                   ELSE total_segments
              /\ total_files_processed' = IF completed THEN total_files_processed + 1
                                          ELSE total_files_processed
              /\ IF r.raised # "none" /\ ~EcgCatches(r.raised)
                 THEN /\ pc' = "crashed"
                      /\ UNCHANGED console
                 ELSE /\ pc' = "loop"
                      /\ console' = Append(console, [file |-> file, msg |-> r.msg])
    /\ UNCHANGED <<program, sample_frequency, dir_created, n_records, summary,
                   rvars, svars, pvars>>

\* lines 174-182
EcgSummary ==
    /\ program = "ecg"
    /\ pc = "loop"
    /\ Len(attempted) = n_records
    /\ summary' = <<[processed |-> total_files_processed, total |-> n_records,
                     segments |-> total_segments, last |-> global_segment_counter - 1]>>
    /\ pc' = "done"
    /\ UNCHANGED <<program, sample_frequency, dir_created, n_records, attempted,
                   global_segment_counter, total_segments, total_files_processed,
                   written, console, rvars, svars, pvars>>

---------------------------------------------------------------------------
(* ptb_xl2csv.py *)

HighResolution == 500
LowResolution == 100

\* lines 19-24: the sample frequencies with a records folder
Supported(frequency) == frequency = HighResolution \/ frequency = LowResolution

\* line 52: the entry of the row in the column the sample frequency selects
PathOf(frequency, ecg_id) ==
    IF frequency = HighResolution THEN "records500/" \o ecg_id \o "_hr"
    ELSE "records100/" \o ecg_id \o "_lr"

\* line 80: except Exception
PtbCatches(exc) == exc \in {"OSError", "ValueError", "ZeroDivisionError", "KeyError"}

\* lines 82-86: the entry appended for a failed row; path is filename_path as the
\* handler finds it
ErrorEntry(ecg_id, path) ==
    [record_id |-> IF has_ecg_id_col THEN ecg_id ELSE "unknown",
     filename |-> IF path # "unset" THEN path ELSE "unknown"]

\* line 82: errors.append
AppendErrorOnce(errs, entry) ==
    IF \E k \in 1..Len(errs) : errs[k] = entry THEN errs ELSE Append(errs, entry)
AppendError(errs, entry) == Append(errs, entry)

\* line 99: if errors
ShouldSaveErrorLogAlways(errs) == TRUE
ShouldSaveErrorLog(errs) == errs # <<>>

\* lines 19-42
PtbConfigure ==
    /\ program = "ptb"
    /\ pc = "start"
    /\ IF Supported(sample_frequency)
       THEN /\ dir_created' = TRUE
            /\ pc' = "loop"
       ELSE /\ pc' = "aborted"
            /\ UNCHANGED dir_created
    /\ UNCHANGED <<program, sample_frequency, n_records, attempted,
                   rvars, svars, evars, pvars>>

\* lines 49-88: one iteration of the loop over df_database.  step is where the body
\* raises: "rdsamp" (line 61), "to_csv" (line 76) or "none"; line 52 raises KeyError
\* for every row when the index has no filename column.
PtbRecord ==
    /\ program = "ptb"
    /\ pc = "loop"
    /\ Len(attempted) < n_records
    /\ \E step \in {"none", "rdsamp", "to_csv"} :
          LET row == Len(attempted) + 1
              ecg_id == df_database[row]
              raised == IF ~has_filename_col THEN "KeyError"
                        ELSE IF step = "none" THEN "none" ELSE "OSError"
              path == IF has_filename_col THEN PathOf(sample_frequency, ecg_id)
                      ELSE filename_path
          IN  /\ attempted' = Append(attempted, row)
              /\ filename_path' = path
              /\ IF raised = "none"
                 THEN /\ outputs' = Append(outputs, path)
                      /\ successful' = successful + 1
                      /\ pc' = "loop"
                      /\ UNCHANGED <<failed, errors, failed_rows>>
                 ELSE IF PtbCatches(raised)
                 THEN /\ failed' = failed + 1
                      /\ errors' = AppendError(errors, ErrorEntry(ecg_id, path))
                      /\ failed_rows' = Append(failed_rows, row)
                      /\ pc' = "loop"
                      /\ UNCHANGED <<outputs, successful>>
                 ELSE /\ pc' = "crashed"
                      /\ UNCHANGED <<outputs, successful, failed, errors, failed_rows>>
    /\ UNCHANGED <<program, sample_frequency, dir_created, n_records,
                   df_database, has_filename_col, has_ecg_id_col, error_log, summary,
                   global_segment_counter, total_segments, total_files_processed,
                   written, console, rvars, svars>>

\* lines 90-102
PtbSummary ==
    /\ program = "ptb"
    /\ pc = "loop"
    /\ Len(attempted) = n_records
    /\ summary' = <<[processed |-> successful, total |-> n_records, failed |-> failed]>>
    /\ error_log' = IF ShouldSaveErrorLog(errors) THEN Append(error_log, errors)
                    ELSE error_log
    /\ pc' = "done"
    /\ UNCHANGED <<program, sample_frequency, dir_created, n_records, attempted,
                   df_database, has_filename_col, has_ecg_id_col, filename_path,
                   successful, failed, errors, failed_rows, outputs,
                   global_segment_counter, total_segments, total_files_processed,
                   written, console, rvars, svars>>

---------------------------------------------------------------------------
(* The two programs *)

EcgIds == {ToString(k) : k \in 1..MaxEcgId}
Databases == UNION {[1..n -> EcgIds] : n \in 0..MaxRows}

Init ==
    /\ ReaderIdle
    /\ SegmenterIdle
    /\ pc = "start"
    /\ dir_created = FALSE
    /\ attempted = <<>>
    /\ global_segment_counter = 0 /\ total_segments = 0 /\ total_files_processed = 0
    /\ written = <<>> /\ console = <<>> /\ summary = <<>>
    /\ filename_path = "unset" /\ successful = 0 /\ failed = 0 /\ errors = <<>>
    /\ failed_rows = <<>> /\ outputs = <<>> /\ error_log = <<>>
    /\ \/ /\ program = "ecg"
          /\ sample_frequency \in -1..MaxBatchFrequency
          /\ n_records \in 0..MaxFiles
          /\ df_database = <<>> /\ has_filename_col = TRUE /\ has_ecg_id_col = TRUE
       \/ /\ program = "ptb"
          /\ sample_frequency \in {0, LowResolution, 250, HighResolution}
          /\ df_database \in Databases
          /\ n_records = Len(df_database)
          /\ has_filename_col \in BOOLEAN
          /\ has_ecg_id_col \in BOOLEAN

Next == EcgStart \/ EcgFile \/ EcgSummary \/ PtbConfigure \/ PtbRecord \/ PtbSummary

Spec == Init /\ [][Next]_vars

---------------------------------------------------------------------------
(* Claims about read_ecg_file *)

\* a line that splits on ";" into exactly two fields that both parse as integers
WellFormed(rawline) ==
    LET t == Strip(rawline) IN
    \E p \in 1..Len(t) :
        /\ t[p] = ";"
        /\ \A q \in 1..Len(t) : t[q] = ";" => q = p
        /\ ~IntRaises(SubSeq(t, 1, p - 1))
        /\ ~IntRaises(SubSeq(t, p + 1, Len(t)))

SampleOf(rawline) ==
    LET t == Strip(rawline)
        p == CHOOSE q \in 1..Len(t) : t[q] = ";"
    IN  [index |-> IntOf(SubSeq(t, 1, p - 1)), value |-> IntOf(SubSeq(t, p + 1, Len(t)))]

\* C8: read_ecg_file returns, in file order, exactly one sample per line that splits
\* on ";" into two integer fields, and skips every other line wherever it stands; a
\* file with no such line yields an empty result, not an exception.
C8_ReaderKeepsExactlyWellFormedLines ==
    rstate = "returned" =>
        LET good == SelectSeq(ReadLines(content), WellFormed) IN
        data = [k \in 1..Len(good) |-> SampleOf(good[k])]

\* a file of three lines whose middle line is malformed and whose other two are kept
C8_Witness ==
    /\ rstate = "returned"
    /\ Len(ReadLines(content)) = 3
    /\ ~WellFormed(ReadLines(content)[2])
    /\ Strip(ReadLines(content)[2]) # <<>>
    /\ Len(data) = 2

---------------------------------------------------------------------------
(* Claims about split_into_segments *)

SamplesPerSegment == seg_frequency * segment_duration

\* C3: for N samples and k = samples_per_segment >= 1 there are exactly N div k
\* segments of exactly k samples each, segment i holds the samples at positions
\* [i*k, (i+1)*k) in source order, and the last N mod k samples are in no segment
\* and are the discarded count.
C3_WindowingCompleteness ==
    (sstate = "returned" /\ SamplesPerSegment >= 1) =>
        LET k == SamplesPerSegment
            N == Len(df)
        IN  /\ Len(segments) = N \div k
            /\ \A i \in 1..Len(segments) :
                  /\ Len(segments[i]) = k
                  /\ \A j \in 1..k : segments[i][j]["value"] = df[(i - 1) * k + j]["value"]
            /\ remaining_samples = N % k
            /\ Len(segments) * k + remaining_samples = N

\* two segments were cut and a remainder was discarded
C3_Witness ==
    /\ sstate = "returned"
    /\ SamplesPerSegment >= 1
    /\ Len(segments) = 2
    /\ remaining_samples > 0

\* C4 as stated: in every segment the first relative time is 0 and each next one is
\* exactly one sample tick larger, whatever the index column holds.
C4_Original_UnitSteps ==
    sstate = "returned" =>
        \A i \in 1..Len(segments) :
            /\ segments[i][1]["time"] = 0
            /\ \A j \in 1..(Len(segments[i]) - 1) :
                  segments[i][j + 1]["time"] = segments[i][j]["time"] + 1

\* C4 as amended: in every segment the first relative time is 0 and each next one is
\* larger by the difference of the two source index values, in ticks of
\* 1/sample_frequency: one tick exactly where the source indices are consecutive.
C4_TimeFollowsIndex ==
    (sstate = "returned" /\ SamplesPerSegment >= 1) =>
        LET k == SamplesPerSegment IN
        \A i \in 1..Len(segments) :
            /\ segments[i][1]["time"] = 0
            /\ \A j \in 1..(Len(segments[i]) - 1) :
                  segments[i][j + 1]["time"] - segments[i][j]["time"]
                      = df[(i - 1) * k + j + 1]["index"] - df[(i - 1) * k + j]["index"]

\* two segments: the first from source indices with a gap, the second from source
\* indices that start above 0
C4_Witness ==
    /\ sstate = "returned"
    /\ Len(segments) = 2
    /\ Len(segments[1]) = 2
    /\ segments[1][2]["time"] = 2
    /\ df[3]["index"] > 0
    /\ segments[2][1]["time"] = 0

---------------------------------------------------------------------------
(* Claims about process_ecg_files *)

MessagesOf(file) == {console[k]["msg"] : k \in {j \in 1..Len(console) : console[j]["file"] = file}}

\* C1: the sequence numbers naming the written segment files are exactly 0, 1, 2, ...
\* in the order the files are written, records in list order.
C1_SequenceNumbersContiguous ==
    program = "ecg" =>
        /\ \A j \in 1..Len(written) : written[j]["seq"] = j - 1
        /\ \A j \in 1..(Len(written) - 1) : written[j]["file"] <= written[j + 1]["file"]
        /\ global_segment_counter = Len(written)

\* a batch whose first file is written, whose second fails after one segment was
\* written, and whose third is written after it
C1_Witness ==
    /\ program = "ecg"
    /\ pc = "done"
    /\ MessagesOf(1) = {"saved"}
    /\ MessagesOf(2) = {"error"}
    /\ \E j \in 1..Len(written) : written[j]["file"] = 2
    /\ MessagesOf(3) = {"saved"}

\* C10 as stated: at the end of a batch the summary's segment total is the number of
\* segment files written, which is the final counter, and every written file is of a
\* record counted as processed.
C10_SummaryCountsWrittenFiles ==
    (program = "ecg" /\ pc = "done") =>
        /\ summary[1]["segments"] = Len(written)
        /\ summary[1]["segments"] = global_segment_counter
        /\ \A j \in 1..Len(written) : "saved" \in MessagesOf(written[j]["file"])

\* the lines "Error processing ..." (line 172): the only report of a failed record
ErrorReport == SelectSeq(console, LAMBDA e : e["msg"] = "error")

\* a finished batch of at least three files of which exactly one, not the first and
\* not the last, has no valid line, every other one holding a full segment
OneEmptyFileInTheMiddle(bad) ==
    /\ program = "ecg"
    /\ pc = "done"
    /\ sample_frequency >= 1
    /\ bad \in 2..(n_records - 1)
    /\ MessagesOf(bad) = {"empty"}
    /\ \A f \in (1..n_records) \ {bad} : MessagesOf(f) = {"saved"}

\* C5 as stated: with one empty record among valid ones, the others are processed,
\* the empty one is an entry of the error report, and the totals show
\* processed = total - 1 and failed = 1.
C5_FaultyRecordIsReported ==
    \A bad \in 1..n_records :
        OneEmptyFileInTheMiddle(bad) =>
            /\ summary[1]["processed"] = n_records - 1
            /\ Len(ErrorReport) = 1
            /\ ErrorReport[1]["file"] = bad

---------------------------------------------------------------------------
(* Claims about both programs *)

\* the sample frequency is unsupported, or gives samples_per_segment < 1
InvalidFrequency ==
    IF program = "ptb" THEN ~Supported(sample_frequency)
    ELSE sample_frequency * SegmentDuration < 1

\* C6 as stated: an invalid sampling frequency aborts the run before any record is
\* attempted and before the output directory or any file is made; it is never a
\* per-record failure after which the batch goes on.
C6_InvalidFrequencyAbortsFirst ==
    (program \in {"ecg", "ptb"} /\ InvalidFrequency) =>
        /\ pc \in {"start", "aborted"}
        /\ ~dir_created
        /\ attempted = <<>>
        /\ written = <<>> /\ outputs = <<>> /\ console = <<>>

LoopStep == EcgFile \/ EcgSummary \/ PtbRecord \/ PtbSummary

\* C2: in both loops no failure of a record stops the batch: the records attempted
\* are the first records of the list, each once and in list order; the loop always
\* has a next step until the summary; and the summary comes after every record.
C2_FailureNeverStopsTheBatch ==
    /\ pc # "crashed"
    /\ Len(attempted) <= n_records
    /\ \A k \in 1..Len(attempted) : attempted[k] = k
    /\ pc = "loop" => ENABLED LoopStep
    /\ pc = "done" => (Len(attempted) = n_records /\ Len(summary) = 1)
    /\ (pc = "loop" /\ program = "ecg") => Len(console) = Len(attempted)
    /\ (pc = "loop" /\ program = "ptb") => successful + failed = Len(attempted)

\* a finished batch in which a record failed and a later one was handled
C2_Witness ==
    /\ pc = "done"
    /\ n_records >= 3
    /\ \/ program = "ecg" /\ MessagesOf(1) = {"error"} /\ MessagesOf(3) = {"saved"}
       \/ program = "ptb" /\ failed_rows = <<1>> /\ successful = 2

---------------------------------------------------------------------------
(* Claims about ptb_xl2csv.py *)

\* C7: successful + failed is the number of records handled, and the ledger holds
\* one entry per failed record, in processing order, none removed or merged, each
\* with the identifier and the source path of the record that failed.
C7_LedgerMatchesFailedRecords ==
    program = "ptb" =>
        /\ successful + failed = Len(attempted)
        /\ Len(errors) = failed
        /\ Len(failed_rows) = failed
        /\ \A k \in 1..(Len(failed_rows) - 1) : failed_rows[k] < failed_rows[k + 1]
        /\ \A k \in 1..Len(errors) :
              LET ecg_id == df_database[failed_rows[k]] IN
              /\ errors[k]["record_id"] = IF has_ecg_id_col THEN ecg_id ELSE "unknown"
              /\ errors[k]["filename"] =
                    IF has_filename_col THEN PathOf(sample_frequency, ecg_id) ELSE "unknown"

\* two rows with the same identifier failed, with a successful row between them
C7_Witness ==
    /\ program = "ptb"
    /\ has_filename_col
    /\ failed_rows = <<1, 3>>
    /\ df_database[1] = df_database[3]
    /\ df_database[2] # df_database[1]
    /\ successful = 1
    /\ Len(errors) = 2

\* C9: processing_errors.csv is written at most once, only after every record was
\* handled, and exactly when a record failed; it then holds every ledger entry.
C9_ErrorLogWrittenOnceAtEnd ==
    program = "ptb" =>
        /\ Len(error_log) <= 1
        /\ error_log # <<>> => (pc = "done" /\ Len(attempted) = n_records)
        /\ pc = "done" => (error_log # <<>> <=> failed > 0)
        /\ error_log # <<>> => (error_log[1] = errors /\ Len(error_log[1]) = Len(failed_rows))

\* a finished run with failed and successful rows whose report was written
C9_Witness ==
    /\ program = "ptb"
    /\ pc = "done"
    /\ failed = 2
    /\ successful = 1
    /\ Len(error_log) = 1

===========================================================================
